---- MODULE Spec2Model ----
(***************************************************************************)
(* Model of the QueryInterface component                                   *)
(* (src/frontend/src/components/query-interface.tsx): the query buffer,    *)
(* the query history with its keyboard cursor, and the execution of the    *)
(* buffer against the selected connection.                                 *)
(*                                                                         *)
(* A text is a sequence of characters.  Event handlers run one at a time;  *)
(* handleQuery suspends at `await Query(...)` and its continuation (the    *)
(* rest of the try block, or the catch block) runs as a later step with    *)
(* the values its closure captured when Run was clicked.                   *)
(***************************************************************************)
EXTENDS Bags, FiniteSets, Integers, Sequences, TLC

\* ---------------------------------------------------------------- bounds
MaxLen == 2          \* longest buffer text
MaxRuns == 2         \* Run clicks that reach the executor in one behaviour

\* ------------------------------------------------------------ value sets
Chars == {"a", " "}
Whitespace == {" "}
NoConnection == ""
Connections == {"c1"}
NullResult == "null"
QueryResults == {"r1", "r2"}
NoToast == [title |-> "", description |-> ""]
\* what the rejected promise carries: an Error with a message, or a bare value
Errors == {[isError |-> TRUE, message |-> "boom"],
           [isError |-> FALSE, message |-> ""]}
Keys == {"ArrowUp", "ArrowDown", "Other"}
\* what an out-of-range array read yields
Undefined == <<"undefined">>

Texts == UNION {[1..n -> Chars] : n \in 0..MaxLen}

Min(a, b) == IF a < b THEN a ELSE b
Max(a, b) == IF a > b THEN a ELSE b

\* ------------------------------------------------------- String.trim()
RECURSIVE TrimStart(_)
TrimStart(s) ==
    IF s # <<>> /\ Head(s) \in Whitespace THEN TrimStart(Tail(s)) ELSE s

RECURSIVE TrimEnd(_)
TrimEnd(s) ==
    IF s # <<>> /\ s[Len(s)] \in Whitespace
    THEN TrimEnd(SubSeq(s, 1, Len(s) - 1))
    ELSE s

Trim(s) == TrimEnd(TrimStart(s))

\* JavaScript truthiness of a string: the empty string is falsy
Truthy(s) == s # <<>>

\* the record kept of the last handler: its name, the sql of the call it
\* issued or settled (handleQuery), the result the executor returned
Op(op, sql, out) == [op |-> op, sql |-> sql, out |-> out]

Other(op) == Op(op, <<>>, "")

VARIABLES
    selectedConnection,  \* prop: the selected connection, "" when absent
    queryText,           \* useState: the buffer text
    results,             \* useState: the stored QueryResult or null
    queryHistory,        \* useState: executed queries, oldest first
    historyIndex,        \* useState: the history cursor, -1 = not browsing
    completionActive,    \* whether .cm-tooltip-autocomplete is in the DOM
    pending,             \* bag of suspended handleQuery calls
    toasted,             \* the last toast shown
    executorCalls,       \* number of invocations of Query so far
    runClicks,           \* number of Run clicks made with a connection
    completed,           \* texts of the successful non-blank runs, in order
    lastOp,              \* the handler that ran last, with the text and
                         \* the result of the call it issued or settled
    \* QueryInterface, metadata of the selected connection
    tables,              \* useState: the table list
    tableInfo,           \* useState: the schema handed to the completions
    loads,               \* bag of suspended loadTables / loadTableInfo calls
    changes,             \* number of connection changes so far
    loadFailures,        \* number of loads that were rejected so far
    \* monaco-editor.tsx
    sqlText,             \* the text of the editor model / the sql parsed
    position,            \* provideCompletionItems: the cursor
    regexLastIndex,      \* regex.lastIndex of parseSqlAndFindTableNameAndAliases
    match,               \* the match of the last regex.exec
    parsedTables,        \* the `tables` array built by the parse loop
    suggestions,         \* what provideCompletionItems returned
    pc                   \* where the editor function stands

vars == <<selectedConnection, queryText, results, queryHistory, historyIndex,
          completionActive, pending, toasted, executorCalls, runClicks,
          completed, lastOp, tables, tableInfo, loads, changes, loadFailures,
          sqlText,
          position, regexLastIndex, match, parsedTables, suggestions, pc>>

historyVars == <<queryText, results, queryHistory, historyIndex,
                 completionActive, pending, toasted, executorCalls, runClicks,
                 completed>>

loadVars == <<tables, tableInfo, loads, changes, loadFailures>>

editorVars == <<sqlText, position, regexLastIndex, match, parsedTables,
                suggestions, pc>>

\* no regex match: what regex.exec returns as null
NoMatch == [index |-> -1, end |-> -1, tableEnd |-> -1,
            table_name |-> <<>>, alias |-> <<>>]

\* the component has mounted with nothing selected, or the metadata is left
\* out of the picture: no handler of the history or of the execution reads it
LoadsIdle ==
    /\ tables = <<>>
    /\ tableInfo = <<>>
    /\ loads = EmptyBag
    /\ changes = 0
    /\ loadFailures = 0

\* no editor function is running
EditorIdle ==
    /\ sqlText = <<>>
    /\ position = [lineNumber |-> 1, column |-> 1]
    /\ regexLastIndex = 0
    /\ match = NoMatch
    /\ parsedTables = <<>>
    /\ suggestions = <<>>
    /\ pc = "idle"

\* the history and the execution at rest, as the component mounts them
HistoryIdle ==
    /\ queryText = <<>>
    /\ results = NullResult
    /\ queryHistory = <<>>
    /\ historyIndex = -1
    /\ completionActive = FALSE
    /\ pending = EmptyBag
    /\ toasted = NoToast
    /\ executorCalls = 0
    /\ runClicks = 0
    /\ completed = <<>>

Init ==
    /\ selectedConnection \in Connections \cup {NoConnection}
    /\ queryText \in Texts
    /\ results \in QueryResults \cup {NullResult}
    /\ queryHistory = <<>>
    /\ historyIndex = -1
    /\ completionActive = FALSE
    /\ pending = EmptyBag
    /\ toasted = NoToast
    /\ executorCalls = 0
    /\ runClicks = 0
    /\ completed = <<>>
    /\ lastOp = Other("init")
    /\ LoadsIdle
    /\ EditorIdle

\* ------------------------------------------------- handleQuery, pieces
ConnectionSelectedAlways(connection) == TRUE

\* line 83: `!selectedConnection` is false
ConnectionSelected(connection) == connection # NoConnection

\* the suspended call: the arguments given to Query on line 93.  The
\* continuation reads `queryText` from the closure of the render in which
\* Run was clicked, which is the very value passed as sql.
Call(connection, sql) == [connection |-> connection, sql |-> sql]

LiveQueryText(call, liveText) == liveText

ClosureQueryText(call, liveText) == call.sql

\* line 93: one invocation of the executor per call of handleQuery
CallsAfterRun(calls) == calls + 1

CallsAfterRetry(calls) == calls + 1

\* lines 99-106: the catch block invokes nothing
CallsAfterFailure(calls) == calls

PendingAfterRunGuarded(bag, call) ==
    IF bag = EmptyBag THEN bag (+) SetToBag({call}) ELSE bag

\* line 93: nothing in handleQuery, nor the Run button (line 171), looks at
\* the calls already in flight
PendingAfterRun(bag, call) == bag (+) SetToBag({call})

PendingAfterSettle(bag, call) == bag (-) SetToBag({call})

\* line 94: setResults(result)
ResultsAfterSuccess(prev, result) == result

ResultsClearedOnFailure(prev) == NullResult

\* lines 99-106: the catch block never calls setResults
ResultsAfterFailure(prev) == prev

HistoryAfterSuccessNoTrim(prev, text) ==
    IF Truthy(text) THEN Append(prev, text) ELSE prev

\* lines 95-96: if (queryText.trim()) setQueryHistory(prev => [...prev, queryText])
HistoryAfterSuccess(prev, text) ==
    IF Truthy(Trim(text)) THEN Append(prev, text) ELSE prev

IndexKeptAfterSuccess(index, text) == index

\* lines 95-97: if (queryText.trim()) setHistoryIndex(-1)
IndexAfterSuccess(index, text) ==
    IF Truthy(Trim(text)) THEN -1 ELSE index

\* lines 84-88
ValidationToast ==
    [title |-> "Error", description |-> "Please select a connection first"]

\* lines 101-105
QueryErrorToast(err) ==
    [title |-> "Query Error",
     description |-> IF err.isError THEN err.message ELSE "An error occurred"]

\* ------------------------------------------------ handleKeyDown, pieces
IsArrow(key) == key = "ArrowUp" \/ key = "ArrowDown"

\* line 120
LastIndex(history) == Len(history) - 1

NewIndexUnclamped(key, index, lastIndex) ==
    IF key = "ArrowUp" THEN index + 1 ELSE Max(index - 1, -1)

NewIndexStopsAtNewest(key, index, lastIndex) ==
    IF key = "ArrowUp" THEN Min(index + 1, lastIndex) ELSE Max(index - 1, 0)

\* line 121
NewIndex(key, index, lastIndex) ==
    IF key = "ArrowUp" THEN Min(index + 1, lastIndex) ELSE Max(index - 1, -1)

\* history[i] of JavaScript: undefined outside 0..length-1
At(history, i) ==
    IF i \in 0..(Len(history) - 1) THEN history[i + 1] ELSE Undefined

RecalledTextOldestFirst(newIndex, history, lastIndex) ==
    IF newIndex = -1 THEN <<>> ELSE At(history, newIndex)

\* line 124
RecalledText(newIndex, history, lastIndex) ==
    IF newIndex = -1 THEN <<>> ELSE At(history, lastIndex - newIndex)

KeyIgnoredPopupUnchecked(key, active, history) ==
    \/ ~IsArrow(key)
    \/ Len(history) = 0

\* lines 111-118: the three early returns
KeyIgnored(key, active, history) ==
    \/ active
    \/ ~IsArrow(key)
    \/ Len(history) = 0

IndexResetByEdit(index) == -1

\* line 142: onChange calls setQueryText only, the cursor stays
IndexAfterEdit(index) == index

\* -------------------------------------------------------------- actions
\* onChange={(value) => setQueryText(value)}
Edit(value) ==
    /\ queryText' = value
    /\ historyIndex' = IndexAfterEdit(historyIndex)
    /\ lastOp' = Other("edit")
    /\ UNCHANGED <<editorVars, loadVars>>
    /\ UNCHANGED <<selectedConnection, results, queryHistory,
                   completionActive, pending, toasted, executorCalls,
                   runClicks, completed>>

\* the completion tooltip appears in, or disappears from, the document
SetCompletionActive(active) ==
    /\ completionActive # active
    /\ completionActive' = active
    /\ lastOp' = Other("popup")
    /\ UNCHANGED <<editorVars, loadVars>>
    /\ UNCHANGED <<selectedConnection, queryText, results, queryHistory,
                   historyIndex, pending, toasted, executorCalls, runClicks,
                   completed>>

\* the parent passes another selectedConnection prop
SelectConnection(connection) ==
    /\ selectedConnection # connection
    /\ selectedConnection' = connection
    /\ lastOp' = Other("connect")
    /\ UNCHANGED <<editorVars, loadVars>>
    /\ UNCHANGED <<queryText, results, queryHistory, historyIndex,
                   completionActive, pending, toasted, executorCalls,
                   runClicks, completed>>

\* handleQuery, lines 83-90: Run clicked with no connection selected
HandleQueryRejected ==
    /\ ~ConnectionSelected(selectedConnection)
    /\ toasted' = ValidationToast
    /\ lastOp' = Other("reject")
    /\ UNCHANGED <<editorVars, loadVars>>
    /\ UNCHANGED <<selectedConnection, queryText, results, queryHistory,
                   historyIndex, completionActive, pending, executorCalls,
                   runClicks, completed>>

\* handleQuery, lines 83-93: Run clicked with a connection; the handler
\* calls Query and suspends at the await
HandleQueryCall ==
    /\ ConnectionSelected(selectedConnection)
    /\ runClicks < MaxRuns
    /\ runClicks' = runClicks + 1
    /\ executorCalls' = CallsAfterRun(executorCalls)
    /\ pending' = PendingAfterRun(pending, Call(selectedConnection, queryText))
    /\ lastOp' = Op("run", queryText, "")
    /\ UNCHANGED <<editorVars, loadVars>>
    /\ UNCHANGED <<selectedConnection, queryText, results, queryHistory,
                   historyIndex, completionActive, toasted, completed>>

\* handleQuery, lines 93-98: the promise of one suspended call resolves
HandleQuerySuccess(call, result) ==
    /\ BagIn(call, pending)
    /\ pending' = PendingAfterSettle(pending, call)
    /\ results' = ResultsAfterSuccess(results, result)
    /\ queryHistory' =
           HistoryAfterSuccess(queryHistory, ClosureQueryText(call, queryText))
    /\ historyIndex' =
           IndexAfterSuccess(historyIndex, ClosureQueryText(call, queryText))
    /\ completed' =
           IF Trim(call.sql) # <<>> THEN Append(completed, call.sql)
                                    ELSE completed
    /\ lastOp' = Op("success", call.sql, result)
    /\ UNCHANGED <<editorVars, loadVars>>
    /\ UNCHANGED <<selectedConnection, queryText, completionActive, toasted,
                   executorCalls, runClicks>>

\* handleQuery, lines 93 and 99-106: the promise of one suspended call rejects
HandleQueryFailure(call, err) ==
    /\ BagIn(call, pending)
    /\ pending' = PendingAfterSettle(pending, call)
    /\ results' = ResultsAfterFailure(results)
    /\ toasted' = QueryErrorToast(err)
    /\ executorCalls' = CallsAfterFailure(executorCalls)
    /\ lastOp' = Op("failure", call.sql, "")
    /\ UNCHANGED <<editorVars, loadVars>>
    /\ UNCHANGED <<selectedConnection, queryText, queryHistory, historyIndex,
                   completionActive, runClicks, completed>>

\* handleKeyDown, lines 109-125
HandleKeyDown(key) ==
    /\ IF KeyIgnored(key, completionActive, queryHistory)
       THEN UNCHANGED <<historyIndex, queryText>>
       ELSE /\ historyIndex' =
                   NewIndex(key, historyIndex, LastIndex(queryHistory))
            /\ queryText' =
                   RecalledText(NewIndex(key, historyIndex,
                                         LastIndex(queryHistory)),
                                queryHistory, LastIndex(queryHistory))
    /\ lastOp' = Other(key)
    /\ UNCHANGED <<editorVars, loadVars>>
    /\ UNCHANGED <<selectedConnection, results, queryHistory,
                   completionActive, pending, toasted, executorCalls,
                   runClicks, completed>>

Next ==
    \/ \E value \in Texts : Edit(value)
    \/ \E active \in BOOLEAN : SetCompletionActive(active)
    \/ \E connection \in Connections \cup {NoConnection} :
           SelectConnection(connection)
    \/ HandleQueryRejected
    \/ HandleQueryCall
    \/ \E call \in BagToSet(pending), result \in QueryResults :
           HandleQuerySuccess(call, result)
    \/ \E call \in BagToSet(pending), err \in Errors :
           HandleQueryFailure(call, err)
    \/ \E key \in Keys : HandleKeyDown(key)

Spec == Init /\ [][Next]_vars

\* ==================================================== monaco-editor.tsx
\* Texts are sequences of one-character strings; offsets are those of
\* JavaScript, counted from 0, so the character at offset i is s[i + 1].

UpperCase == <<"A", "B", "C", "D", "E", "F", "G", "H", "I", "J", "K", "L", "M",
               "N", "O", "P", "Q", "R", "S", "T", "U", "V", "W", "X", "Y", "Z">>
LowerCase == <<"a", "b", "c", "d", "e", "f", "g", "h", "i", "j", "k", "l", "m",
               "n", "o", "p", "q", "r", "s", "t", "u", "v", "w", "x", "y", "z">>
Digits == {"0", "1", "2", "3", "4", "5", "6", "7", "8", "9"}

\* case folding of the `i` flag
UpperSet == {UpperCase[i] : i \in 1..Len(UpperCase)}
LowerSet == {LowerCase[i] : i \in 1..Len(LowerCase)}
LowerMap ==
    [c \in UpperSet |-> LowerCase[CHOOSE i \in 1..Len(UpperCase) : UpperCase[i] = c]]

ToLower(c) == IF c \in UpperSet THEN LowerMap[c] ELSE c

LowerText(s) == [i \in 1..Len(s) |-> ToLower(s[i])]

\* \s
IsSpace(c) == c \in {" ", "\n", "\t"}

\* \w
WordChars == UpperSet \cup LowerSet \cup Digits \cup {"_"}

IsWordChar(c) == c \in WordChars

\* whether `word` occurs in s: what /word/.test(s) answers
Contains(s, word) ==
    \E i \in 1..(Len(s) - Len(word) + 1) :
        SubSeq(s, i, i + Len(word) - 1) = word

\* the keyword at offset i, ignoring case
KeywordAt(s, i, word) ==
    /\ i + Len(word) <= Len(s)
    /\ \A k \in 1..Len(word) : ToLower(s[i + k]) = ToLower(word[k])

\* \b at offset i
WordBoundary(s, i) ==
    (i > 0 /\ IsWordChar(s[i])) # (i < Len(s) /\ IsWordChar(s[i + 1]))

\* the offset where the longest run of \s starting at offset i ends
RECURSIVE SkipSpace(_, _)
SkipSpace(s, i) ==
    IF i < Len(s) /\ IsSpace(s[i + 1]) THEN SkipSpace(s, i + 1) ELSE i

\* the same for [^\s.]
RECURSIVE SkipName(_, _)
SkipName(s, i) ==
    IF i < Len(s) /\ ~IsSpace(s[i + 1]) /\ s[i + 1] # "."
    THEN SkipName(s, i + 1) ELSE i

\* the same for [^\s,]
RECURSIVE SkipAlias(_, _)
SkipAlias(s, i) ==
    IF i < Len(s) /\ ~IsSpace(s[i + 1]) /\ s[i + 1] # ","
    THEN SkipAlias(s, i + 1) ELSE i

KwFrom == <<"F", "R", "O", "M">>
KwJoin == <<"J", "O", "I", "N">>
KwAs == <<"A", "S">>

\* line 16, the match of
\*   \b(?:FROM|JOIN)\s+([^\s.]+(?:\.[^\s.]+)?)\s*(?:AS)?\s*([^\s,]+)?
\* that starts at offset p, or NoMatch.  Every quantifier is greedy.  \s+
\* takes all the white space, and giving some back cannot help group 1, which
\* cannot start with white space; all that follows group 1's first
\* character is optional, so the first greedy attempt is the match.
MatchAt(s, p) ==
    IF ~((KeywordAt(s, p, KwFrom) \/ KeywordAt(s, p, KwJoin)) /\ WordBoundary(s, p))
    THEN NoMatch
    ELSE
    LET a == p + 4
        b == SkipSpace(s, a)
        c == SkipName(s, b)
        d == IF c < Len(s) /\ s[c + 1] = "." /\ SkipName(s, c + 1) > c + 1
             THEN SkipName(s, c + 1) ELSE c
        e == SkipSpace(s, d)
        f == IF KeywordAt(s, e, KwAs) THEN e + 2 ELSE e
        g == SkipSpace(s, f)
        h == SkipAlias(s, g)
    IN  IF b = a \/ c = b
        THEN NoMatch
        ELSE [index |-> p, end |-> h, tableEnd |-> d,
              table_name |-> SubSeq(s, b + 1, d),
              alias |-> IF h > g THEN SubSeq(s, g + 1, h) ELSE Undefined]

\* line 20: regex.exec(sql) with the `g` flag: the leftmost match at or
\* after lastIndex
RECURSIVE RegexExec(_, _)
RegexExec(s, from) ==
    IF from > Len(s) THEN NoMatch
    ELSE LET m == MatchAt(s, from)
         IN  IF m # NoMatch THEN m ELSE RegexExec(s, from + 1)

LastIndexStuck(m) == m.index

\* the `g` flag: a match leaves lastIndex at its end
LastIndexAfterMatch(m) == m.end

\* line 25: /\(/.test(table_name)
LooksLikeCall(table_name) == Contains(table_name, <<"(">>)

RxOn == <<"o", "n">>
RxWhere == <<"w", "h", "e", "r", "e">>
RxInner == <<"i", "n", "n", "e", "r">>
RxLeft == <<"l", "e", "f", "t">>
RxRight == <<"r", "i", "g", "h", "t">>
RxJoin == <<"j", "o", "i", "n">>

\* line 28: /on|where|inner|left|right|join/.test(alias): no `i` flag and no
\* anchors, so a lower-case occurrence anywhere in the alias
ReservedTest(alias) ==
    \E word \in {RxOn, RxWhere, RxInner, RxLeft, RxRight, RxJoin} :
        Contains(alias, word)

\* lines 27-30
AliasOf(m) ==
    IF m.alias # Undefined /\ Truthy(m.alias) /\ ReservedTest(m.alias)
    THEN Undefined
    ELSE m.alias

\* lines 31-34: alias || table_name
Reference(m) ==
    [table_name |-> m.table_name,
     alias |-> IF AliasOf(m) # Undefined /\ Truthy(AliasOf(m))
               THEN AliasOf(m) ELSE m.table_name]

\* lines 24-35
PushReference(found, m) ==
    IF ~LooksLikeCall(m.table_name) THEN Append(found, Reference(m)) ELSE found

\* lines 17-38, run to completion
RECURSIVE ParseFrom(_, _, _)
ParseFrom(s, from, found) ==
    LET m == RegexExec(s, from)
    IN  IF m = NoMatch
        THEN found
        ELSE ParseFrom(s, LastIndexAfterMatch(m), PushReference(found, m))

parseSqlAndFindTableNameAndAliases(s) == ParseFrom(s, 0, <<>>)

\* ------------------------------------------------ the texts parsed
MaxWords == 4        \* words in a parsed text
MaxTokens == 4       \* words in a text of the editor model
MaxChanges == 3      \* changes of the selected connection in one behaviour

ParseWords ==
    {<<"F", "R", "O", "M", " ">>, <<",", "j", "o", "i", "n", " ">>,
     <<"t">>, <<" ">>, <<"W", "H", "E", "R", "E">>, <<"c", "o", "n", "n">>,
     <<" ", "A", "S", " ">>, <<"c">>, <<"(">>, <<".">>, <<"o", "n">>}

RECURSIVE Concat(_)
Concat(words) ==
    IF words = <<>> THEN <<>> ELSE Head(words) \o Concat(Tail(words))

ParseTexts ==
    {Concat(words) : words \in UNION {[1..n -> ParseWords] : n \in 0..MaxWords}}

\* ------------------- parseSqlAndFindTableNameAndAliases, step by step
InitParse ==
    /\ sqlText \in ParseTexts
    /\ position = [lineNumber |-> 1, column |-> 1]
    /\ regexLastIndex = 0
    /\ match = NoMatch
    /\ parsedTables = <<>>
    /\ suggestions = <<>>
    /\ pc = "parse"
    /\ selectedConnection = NoConnection
    /\ lastOp = Other("init")
    /\ HistoryIdle
    /\ LoadsIdle

\* lines 19-35: one turn of the loop in which exec finds a match
ParseMatch ==
    /\ pc = "parse"
    /\ LET m == RegexExec(sqlText, regexLastIndex)
       IN  /\ m # NoMatch
           /\ match' = m
           /\ regexLastIndex' = LastIndexAfterMatch(m)
           /\ parsedTables' = PushReference(parsedTables, m)
    /\ UNCHANGED <<sqlText, position, suggestions, pc>>
    /\ UNCHANGED <<selectedConnection, lastOp, historyVars, loadVars>>

\* lines 20-23 and 38: exec finds nothing (and resets lastIndex), the loop
\* breaks and the function returns
ParseReturn ==
    /\ pc = "parse"
    /\ RegexExec(sqlText, regexLastIndex) = NoMatch
    /\ match' = NoMatch
    /\ regexLastIndex' = 0
    /\ pc' = "returned"
    /\ UNCHANGED <<sqlText, position, parsedTables, suggestions>>
    /\ UNCHANGED <<selectedConnection, lastOp, historyVars, loadVars>>

NextParse == ParseMatch \/ ParseReturn

SpecParse == InitParse /\ [][NextParse]_vars

\* ------------------------------------------- provideCompletionItems
\* the lines of the editor model: the text split at "\n"
RECURSIVE SplitAt(_, _)
SplitAt(s, sep) ==
    IF \E i \in 1..Len(s) : s[i] = sep
    THEN LET i == CHOOSE i \in 1..Len(s) :
                      s[i] = sep /\ \A k \in 1..(i - 1) : s[k] # sep
         IN  <<SubSeq(s, 1, i - 1)>> \o SplitAt(SubSeq(s, i + 1, Len(s)), sep)
    ELSE <<s>>

ModelLines(text) == SplitAt(text, "\n")

\* the cursors the editor can report: columns start at 1 and the last one
\* stands after the last character of the line
Positions(text) ==
    {pos \in [lineNumber : 1..Len(ModelLines(text)),
              column : 1..(Len(text) + 1)] :
        pos.column <= Len(ModelLines(text)[pos.lineNumber]) + 1}

\* the number of word characters that end right before column c of the line
RECURSIVE WordRunBefore(_, _)
WordRunBefore(line, c) ==
    IF c > 1 /\ IsWordChar(line[c - 1]) THEN 1 + WordRunBefore(line, c - 1) ELSE 0

\* line 57: model.getWordUntilPosition(position) of the Monaco editor: the
\* part of the word at the cursor that lies before the cursor
getWordUntilPosition(text, pos) ==
    [startColumn |->
         pos.column - WordRunBefore(ModelLines(text)[pos.lineNumber], pos.column),
     endColumn |-> pos.column]

RangeStartColumnShifted(word) == word.startColumn - 1

\* line 61
RangeStartColumn(word) == word.startColumn

\* lines 58-63
ReplaceRange(text, pos) ==
    [startLineNumber |-> pos.lineNumber,
     endLineNumber |-> pos.lineNumber,
     startColumn |-> RangeStartColumn(getWordUntilPosition(text, pos)),
     endColumn |-> getWordUntilPosition(text, pos).endColumn]

StaticSuggestionsDropped(range) == <<>>

\* lines 65-75
StaticSuggestions(range) ==
    <<[label |-> "myCustomSnippet",
       kind |-> "Snippet",
       insertText |-> "This is a piece of custom code",
       range |-> range]>>

\* lines 79-83 and 123-124: new Map(...).get(alias): the last reference with
\* that alias, undefined when there is none
TableOfAlias(references, alias) ==
    IF \E i \in 1..Len(references) : references[i].alias = alias
    THEN references[CHOOSE i \in 1..Len(references) :
                        /\ references[i].alias = alias
                        /\ \A k \in (i + 1)..Len(references) :
                               references[k].alias # alias].table_name
    ELSE Undefined

\* String.trim() of JavaScript: every white space at both ends
RECURSIVE TrimSpace(_)
TrimSpace(s) ==
    IF s # <<>> /\ IsSpace(Head(s)) THEN TrimSpace(Tail(s))
    ELSE IF s # <<>> /\ IsSpace(s[Len(s)])
         THEN TrimSpace(SubSeq(s, 1, Len(s) - 1))
         ELSE s

\* lines 85-90: the cursor's line from column 1 up to the cursor
ThisLine(text, pos) ==
    SubSeq(ModelLines(text)[pos.lineNumber], 1, pos.column - 1)

\* line 91: thisLine.trim().split(" ").slice(-1)?.[0] || ""
ThisToken(text, pos) ==
    LET parts == SplitAt(TrimSpace(ThisLine(text, pos)), " ")
    IN  parts[Len(parts)]

\* the offset after the last "." of the token, 0 when it has none
LastDot(token) ==
    IF \E i \in 1..Len(token) : token[i] = "."
    THEN CHOOSE i \in 1..Len(token) :
             token[i] = "." /\ \A k \in (i + 1)..Len(token) : token[k] # "."
    ELSE 0

\* line 96: /(\w+)\.\w*$/.exec(thisToken)?.[1]: only word characters after
\* the last ".", and the word characters that end right before it
LastTokenBeforeDot(token) ==
    LET d == LastDot(token)
    IN  IF /\ d > 0
           /\ \A k \in (d + 1)..Len(token) : IsWordChar(token[k])
           /\ WordRunBefore(token, d) > 0
        THEN SubSeq(token, d - WordRunBefore(token, d), d - 1)
        ELSE Undefined

\* lines 118-125
ResolvedTable(text, pos) ==
    IF LastTokenBeforeDot(ThisToken(text, pos)) # Undefined
    THEN TableOfAlias(parseSqlAndFindTableNameAndAliases(text),
                      LastTokenBeforeDot(ThisToken(text, pos)))
    ELSE Undefined

\* lines 126-136: the block that would push the columns of table_name is
\* commented out, as is the import of the schema (line 4)
SchemaSuggestions(table_name, range) == <<>>

\* lines 55-145
provideCompletionItems(text, pos) ==
    StaticSuggestions(ReplaceRange(text, pos))
        \o SchemaSuggestions(ResolvedTable(text, pos), ReplaceRange(text, pos))

\* ------------------------------------------- the texts completed
CompletionWords ==
    {<<"c", ".">>, <<"c">>, <<"x", ".">>, <<" ">>, <<"\n">>, <<"t">>,
     <<"F", "R", "O", "M", " ", "t", " ">>}

CompletionTexts ==
    {Concat(words) :
        words \in UNION {[1..n -> CompletionWords] : n \in 0..MaxTokens}}

InitComplete ==
    /\ sqlText \in CompletionTexts
    /\ position \in Positions(sqlText)
    /\ regexLastIndex = 0
    /\ match = NoMatch
    /\ parsedTables = <<>>
    /\ suggestions = <<>>
    /\ pc = "complete"
    /\ selectedConnection = NoConnection
    /\ lastOp = Other("init")
    /\ HistoryIdle
    /\ LoadsIdle

\* the editor asks for the completions at the cursor
ProvideCompletionItems ==
    /\ pc = "complete"
    /\ suggestions' = provideCompletionItems(sqlText, position)
    /\ parsedTables' = parseSqlAndFindTableNameAndAliases(sqlText)
    /\ pc' = "returned"
    /\ UNCHANGED <<sqlText, position, regexLastIndex, match>>
    /\ UNCHANGED <<selectedConnection, lastOp, historyVars, loadVars>>

SpecComplete == InitComplete /\ [][ProvideCompletionItems]_vars

\* ================================= QueryInterface, tables and tableInfo
DataSources == {"c1", "c2"}

\* what ListTables and GetTableInfo answer for a connection; the data of a
\* connection does not change during a behaviour
TablesOf == [c \in DataSources |-> <<<<"t", c>>>>]
SchemaOf ==
    [c \in DataSources |-> <<[table |-> <<"t", c>>, columns |-> {<<"id", c>>}]>>]

Load(kind, connection) == [kind |-> kind, connection |-> connection]

\* lines 48-53 with 62-65 and 72-75: the effect calls loadTables and
\* loadTableInfo, each of which calls the backend and suspends, unless no
\* connection is selected
LoadsStartedFor(bag, connection) ==
    IF ConnectionSelected(connection)
    THEN bag (+) SetToBag({Load("ListTables", connection)})
             (+) SetToBag({Load("GetTableInfo", connection)})
    ELSE bag

\* line 66: setTables(tablesList)
TablesAfterLoad(prev, load) == TablesOf[load.connection]

\* line 76: setTableInfo(info)
TableInfoAfterLoad(prev, load) == SchemaOf[load.connection]

\* lines 67-69: the catch block only logs
TablesAfterFailure(prev) == prev

\* lines 77-79: the catch block only logs
TableInfoAfterFailure(prev) == prev

\* the columns createSqlCompletions(tableInfo) (line 136) can offer: one
\* Column candidate per column of a table of the Schema Index
SchemaColumnCandidates(info) ==
    UNION {info[i].columns : i \in 1..Len(info)}

\* the component mounts; the effect of lines 48-53 runs for the connection
\* it was mounted with
InitLoad ==
    /\ selectedConnection \in DataSources \cup {NoConnection}
    /\ tables = <<>>
    /\ tableInfo = <<>>
    /\ loads = LoadsStartedFor(EmptyBag, selectedConnection)
    /\ changes = 0
    /\ loadFailures = 0
    /\ lastOp = Other("init")
    /\ HistoryIdle
    /\ EditorIdle

\* the parent passes another selectedConnection prop and the effect of
\* lines 48-53 runs
ConnectionChanged(connection) ==
    /\ changes < MaxChanges
    /\ selectedConnection # connection
    /\ selectedConnection' = connection
    /\ loads' = LoadsStartedFor(loads, connection)
    /\ changes' = changes + 1
    /\ lastOp' = Other("connect")
    /\ UNCHANGED <<tables, tableInfo, loadFailures, historyVars, editorVars>>

\* loadTables, lines 65-66: the promise of ListTables resolves
ListTablesResolved(load) ==
    /\ BagIn(load, loads)
    /\ load.kind = "ListTables"
    /\ loads' = loads (-) SetToBag({load})
    /\ tables' = TablesAfterLoad(tables, load)
    /\ lastOp' = Other("tablesLoaded")
    /\ UNCHANGED <<selectedConnection, tableInfo, changes, loadFailures,
                   historyVars, editorVars>>

\* loadTables, lines 65 and 67-69: the promise of ListTables rejects
ListTablesRejected(load) ==
    /\ BagIn(load, loads)
    /\ load.kind = "ListTables"
    /\ loads' = loads (-) SetToBag({load})
    /\ tables' = TablesAfterFailure(tables)
    /\ loadFailures' = loadFailures + 1
    /\ lastOp' = Other("tablesFailed")
    /\ UNCHANGED <<selectedConnection, tableInfo, changes, historyVars,
                   editorVars>>

\* loadTableInfo, lines 75-76: the promise of GetTableInfo resolves
GetTableInfoResolved(load) ==
    /\ BagIn(load, loads)
    /\ load.kind = "GetTableInfo"
    /\ loads' = loads (-) SetToBag({load})
    /\ tableInfo' = TableInfoAfterLoad(tableInfo, load)
    /\ lastOp' = Other("schemaLoaded")
    /\ UNCHANGED <<selectedConnection, tables, changes, loadFailures,
                   historyVars, editorVars>>

\* loadTableInfo, lines 75 and 77-79: the promise of GetTableInfo rejects
GetTableInfoRejected(load) ==
    /\ BagIn(load, loads)
    /\ load.kind = "GetTableInfo"
    /\ loads' = loads (-) SetToBag({load})
    /\ tableInfo' = TableInfoAfterFailure(tableInfo)
    /\ loadFailures' = loadFailures + 1
    /\ lastOp' = Other("schemaFailed")
    /\ UNCHANGED <<selectedConnection, tables, changes, historyVars,
                   editorVars>>

NextLoad ==
    \/ \E connection \in DataSources \cup {NoConnection} :
           ConnectionChanged(connection)
    \/ \E load \in BagToSet(loads) : ListTablesResolved(load)
    \/ \E load \in BagToSet(loads) : ListTablesRejected(load)
    \/ \E load \in BagToSet(loads) : GetTableInfoResolved(load)
    \/ \E load \in BagToSet(loads) : GetTableInfoRejected(load)

SpecLoad == InitLoad /\ [][NextLoad]_vars

\* ------------------------------------------------------------ properties
Arrows == {"ArrowUp", "ArrowDown"}
RunOps == {"run", "reject"}
Pending == BagCardinality(pending)

\* C1: in every reachable state the history cursor is -1 or an index of
\* queryHistory, 0 <= historyIndex <= length - 1.
HistoryCursorValid ==
    \/ historyIndex = -1
    \/ (0 <= historyIndex /\ historyIndex <= Len(queryHistory) - 1)

\* ArrowUp has left the cursor on the oldest entry, after one run succeeded
\* and another failed
HistoryCursorValidWitness ==
    /\ lastOp.op = "ArrowUp"
    /\ ~completionActive
    /\ queryHistory # <<>>
    /\ historyIndex = Len(queryHistory) - 1
    /\ toasted.title = "Query Error"
    /\ runClicks = 2

\* C2: while the completion popup is visible an ArrowUp or ArrowDown key
\* changes neither historyIndex, nor the buffer text, nor queryHistory.
ArrowSuppressedByPopup ==
    [][(completionActive /\ lastOp'.op \in Arrows)
        => UNCHANGED <<historyIndex, queryText, queryHistory>>]_vars

\* an arrow key was pressed with the popup visible, on a history and a
\* buffer that the key would otherwise have changed
ArrowSuppressedByPopupWitness ==
    /\ lastOp.op \in Arrows
    /\ completionActive
    /\ queryHistory # <<>>
    /\ historyIndex = 0
    /\ queryText # queryHistory[Len(queryHistory)]

\* C3: queryHistory is exactly the texts of the runs that completed
\* successfully with a non-blank text, in the order they completed; only a
\* successful run changes it, and only by appending.
HistoryIsCompletedRuns ==
    /\ [](queryHistory = completed)
    /\ [][/\ Len(queryHistory') >= Len(queryHistory)
          /\ SubSeq(queryHistory', 1, Len(queryHistory)) = queryHistory
          /\ (lastOp'.op # "success" => queryHistory' = queryHistory)
          /\ (lastOp'.op = "success" /\ Trim(lastOp'.sql) = <<>>
                => queryHistory' = queryHistory)]_vars

\* a blank run has just succeeded and left the one earlier entry alone
HistoryIsCompletedRunsWitness ==
    /\ lastOp.op = "success"
    /\ lastOp.sql # <<>>
    /\ Trim(lastOp.sql) = <<>>
    /\ Len(queryHistory) = 1
    /\ runClicks = 2

\* C4: ArrowUp with the popup hidden on a non-empty history moves the cursor
\* to min(historyIndex + 1, length - 1) and shows the entry that many places
\* before the newest.
RecallOlder ==
    [][(lastOp'.op = "ArrowUp" /\ ~completionActive /\ queryHistory # <<>>)
        => /\ historyIndex' =
                  IF historyIndex + 1 < Len(queryHistory)
                  THEN historyIndex + 1 ELSE Len(queryHistory) - 1
           /\ queryText' = queryHistory[Len(queryHistory) - historyIndex']]_vars

\* two ArrowUp from -1 show the second most recent of two different entries
RecallOlderWitness ==
    /\ lastOp.op = "ArrowUp"
    /\ ~completionActive
    /\ Len(queryHistory) = 2
    /\ queryHistory[1] # queryHistory[2]
    /\ historyIndex = 1
    /\ queryText = queryHistory[1]

\* C5: ArrowDown with the popup hidden and historyIndex >= 0 moves the cursor
\* to historyIndex - 1 and shows that entry, or the empty buffer at -1.
RecallNewer ==
    [][(lastOp'.op = "ArrowDown" /\ ~completionActive /\ historyIndex >= 0)
        => /\ historyIndex' = historyIndex - 1
           /\ queryText' =
                  IF historyIndex' >= 0
                  THEN queryHistory[Len(queryHistory) - historyIndex']
                  ELSE <<>>]_vars

\* ArrowDown from the older of two different entries shows the newest
RecallNewerWitness ==
    /\ lastOp.op = "ArrowDown"
    /\ ~completionActive
    /\ Len(queryHistory) = 2
    /\ queryHistory[1] # queryHistory[2]
    /\ historyIndex = 0
    /\ queryText = queryHistory[2]

\* C6: a Run action with no connection selected does not invoke the
\* executor; it shows the validation error and leaves the stored result,
\* queryHistory and historyIndex unchanged.
RunWithoutConnection ==
    [][(selectedConnection = NoConnection /\ lastOp'.op \in RunOps)
        => /\ lastOp'.op = "reject"
           /\ executorCalls' = executorCalls
           /\ pending' = pending
           /\ toasted' = [title |-> "Error",
                          description |-> "Please select a connection first"]
           /\ UNCHANGED <<results, queryHistory, historyIndex>>]_vars

\* the Run was rejected with a result stored and the cursor inside a history
RunWithoutConnectionWitness ==
    /\ lastOp.op = "reject"
    /\ selectedConnection = NoConnection
    /\ toasted.description = "Please select a connection first"
    /\ results # NullResult
    /\ queryHistory # <<>>
    /\ historyIndex = 0

\* C7 as stated: after a failed run the stored result is null.
ResultClearedOnFailure == lastOp.op = "failure" => results = NullResult

\* C7, amended: a failed run leaves the stored result exactly as it was (a
\* result stored earlier stays stored), stores nothing of its own and shows
\* a "Query Error" toast.
ResultKeptOnFailure ==
    [][lastOp'.op = "failure"
        => /\ results' = results
           /\ toasted'.title = "Query Error"
           /\ toasted'.description \in {"boom", "An error occurred"}]_vars

\* a run failed after an earlier run had succeeded and stored its result
ResultKeptOnFailureWitness ==
    /\ lastOp.op = "failure"
    /\ queryHistory # <<>>
    /\ results \in QueryResults
    /\ toasted.title = "Query Error"

\* C8: when a run succeeds the stored result becomes the returned result
\* and, if its sql is non-blank, sql becomes the last entry of queryHistory
\* and historyIndex becomes -1.
SuccessStoresAndSubmits ==
    [][lastOp'.op = "success"
        => /\ results' = lastOp'.out
           /\ (Trim(lastOp'.sql) # <<>>
                 => /\ queryHistory' = queryHistory \o <<lastOp'.sql>>
                    /\ historyIndex' = -1)]_vars

\* a second non-blank run succeeded, replacing the first result, with the
\* buffer still showing the entry recalled while the run was pending
SuccessStoresAndSubmitsWitness ==
    /\ lastOp.op = "success"
    /\ Len(queryHistory) = 2
    /\ queryHistory[2] = lastOp.sql
    /\ queryHistory[1] # queryHistory[2]
    /\ queryText = queryHistory[1]
    /\ results = lastOp.out
    /\ historyIndex = -1

\* C9 as stated: at most one call to the executor is pending.
AtMostOnePending == Pending <= 1

\* C9, amended: runs are not serialized.  Every Run action with a connection
\* selected starts a call at once, also while earlier calls are pending, so
\* the pending calls are exactly the calls started and not yet settled.
RunsNotSerialized ==
    [][/\ (lastOp'.op = "run"
             => pending' = pending (+) SetToBag({[connection |-> selectedConnection,
                                                  sql |-> queryText]}))
       /\ (lastOp'.op \in {"success", "failure"} => Pending' = Pending - 1)
       /\ (lastOp'.op \notin {"run", "success", "failure"}
             => pending' = pending)]_vars

\* Run was clicked while a call was pending, and both are now in flight
RunsNotSerializedWitness ==
    /\ lastOp.op = "run"
    /\ Pending = 2

\* C10: each Run action with a connection invokes the executor exactly once,
\* and a failure invokes nothing and leaves no call of that request pending.
FireOnce ==
    /\ [](executorCalls = runClicks)
    /\ [][/\ executorCalls' - executorCalls =
                 (IF lastOp'.op = "run" THEN 1 ELSE 0)
          /\ (lastOp'.op = "failure"
                => /\ executorCalls' = executorCalls
                   /\ Pending' = Pending - 1)]_vars

\* both runs have been issued and one of them failed: two invocations
FireOnceWitness ==
    /\ lastOp.op = "failure"
    /\ runClicks = 2
    /\ executorCalls = 2
    /\ Pending = 1

\* C18 as stated: ArrowDown with the popup hidden and the cursor at -1
\* leaves the cursor at -1 and the buffer as it was.  The code computes
\* newIndex = max(-2, -1) = -1 and sets the buffer to "" on line 124.
ArrowDownAtRestKeepsBuffer ==
    [][(lastOp'.op = "ArrowDown" /\ ~completionActive /\ historyIndex = -1)
        => /\ historyIndex' = -1
           /\ queryText' = queryText]_vars

\* C19: the entry a successful run appends is the sql that was passed to the
\* executor for that run, whatever the buffer holds when the run settles.
AppendedEntryIsExecutedSql ==
    (lastOp.op = "success" /\ Trim(lastOp.sql) # <<>>)
        => /\ queryHistory # <<>>
           /\ queryHistory[Len(queryHistory)] = lastOp.sql

\* the run settled after the buffer had been changed to another text
AppendedEntryIsExecutedSqlWitness ==
    /\ lastOp.op = "success"
    /\ Trim(lastOp.sql) # <<>>
    /\ Trim(queryText) # <<>>
    /\ queryText # lastOp.sql
    /\ queryHistory = <<lastOp.sql>>

ShowsCursorEntry(text, history, index) ==
    index >= 0 => (index < Len(history) /\ text = history[Len(history) - index])

\* C20 as stated: whenever historyIndex >= 0 the buffer equals
\* queryHistory[length - 1 - historyIndex].
BufferShowsCursorEntry ==
    ShowsCursorEntry(queryText, queryHistory, historyIndex)

\* C20, amended: an arrow key that handleKeyDown acts on leaves the buffer
\* equal to queryHistory[length - 1 - historyIndex] when historyIndex >= 0,
\* and every handler but a buffer edit keeps it so; a buffer edit changes the
\* buffer and leaves historyIndex where it was, so that after an edit made
\* while browsing the cursor may point at an entry the buffer does not show.
BufferShowsCursorEntryUntilEdit ==
    [][/\ (lastOp'.op \in Arrows /\ ~completionActive /\ queryHistory # <<>>)
             => ShowsCursorEntry(queryText', queryHistory', historyIndex')
       /\ (lastOp'.op # "edit"
             /\ ShowsCursorEntry(queryText, queryHistory, historyIndex))
             => ShowsCursorEntry(queryText', queryHistory', historyIndex')
       /\ lastOp'.op = "edit" => historyIndex' = historyIndex]_vars

\* the buffer was edited while the cursor was on an entry, and differs from it
BufferShowsCursorEntryUntilEditWitness ==
    /\ lastOp.op = "edit"
    /\ historyIndex = 0
    /\ queryHistory # <<>>
    /\ queryText # queryHistory[Len(queryHistory)]

ReservedWords == {RxOn, RxWhere, RxInner, RxLeft, RxRight, RxJoin}
Pushed == pc = "parse" /\ match # NoMatch /\ ~Contains(match.table_name, <<"(">>)

\* C11 as stated: the second captured identifier is the alias iff it does
\* not equal, ignoring case, one of on, where, inner, left, right, join;
\* otherwise (and when nothing was captured) the alias is the table name.
AliasUnlessReservedWord ==
    Pushed =>
        parsedTables[Len(parsedTables)].alias =
            IF match.alias # Undefined
               /\ LowerText(match.alias) \notin ReservedWords
            THEN match.alias
            ELSE match.table_name

\* C12: the parse loop terminates without error: every turn consumes a
\* non-empty match and moves lastIndex strictly forward within the text, so
\* there are at most length(sql) turns and references, and no reference has
\* a table name that holds, or is directly followed by, an opening
\* parenthesis.
ParseTerminates ==
    /\ [][pc' = "parse"
            => /\ match'.end > match'.index
               /\ regexLastIndex' > regexLastIndex
               /\ regexLastIndex' <= Len(sqlText)]_vars
    /\ [](/\ pc = "parse" => Len(parsedTables) <= regexLastIndex
          /\ \A i \in 1..Len(parsedTables) :
                ~Contains(parsedTables[i].table_name, <<"(">>)
          /\ (Pushed /\ match.tableEnd < Len(sqlText))
                => sqlText[match.tableEnd + 1] # "(")

\* the loop has returned one reference from a text with two matches, one of
\* them a call
ParseTerminatesWitness ==
    /\ pc = "returned"
    /\ Contains(sqlText, <<"(">>)
    /\ Contains(LowerText(sqlText), RxJoin)
    /\ Len(parsedTables) = 1

\* the Schema Index of the claim's example: one table, t, with two columns
SchemaIndex == [table \in {<<"t">>} |-> {"id", "name"}]

Qualifier == LastTokenBeforeDot(ThisToken(sqlText, position))

\* C13 as stated: when the qualifier before the cursor's "." is an alias
\* extracted from the buffer, the response holds one Column candidate for
\* every column of that alias's table in the Schema Index.
ColumnsOfResolvedAlias ==
    (pc = "returned" /\ ResolvedTable(sqlText, position) \in DOMAIN SchemaIndex)
        => \A column \in SchemaIndex[ResolvedTable(sqlText, position)] :
               \E i \in 1..Len(suggestions) :
                   /\ suggestions[i].kind = "Column"
                   /\ suggestions[i].insertText = column

\* C14: every response holds the static floor candidate, and when the
\* qualifier is absent or is not an extracted alias it holds nothing else.
StaticFloorOnly ==
    pc = "returned" =>
        /\ \E i \in 1..Len(suggestions) :
               /\ suggestions[i].label = "myCustomSnippet"
               /\ suggestions[i].kind = "Snippet"
               /\ suggestions[i].insertText = "This is a piece of custom code"
        /\ (\A i \in 1..Len(parsedTables) : parsedTables[i].alias # Qualifier)
               => /\ Len(suggestions) = 1
                  /\ suggestions[1].kind = "Snippet"

\* a response for a cursor after "x." in a text whose only alias is another
StaticFloorOnlyWitness ==
    /\ pc = "returned"
    /\ Qualifier = <<"x">>
    /\ parsedTables # <<>>
    /\ \A i \in 1..Len(parsedTables) : parsedTables[i].alias # <<"x">>
    /\ Len(suggestions) = 1

\* C15: the replace range of every candidate starts and ends on the
\* cursor's line, ends at the cursor and spans word characters only.
RangeOnCursorLine ==
    pc = "returned" =>
        \A i \in 1..Len(suggestions) :
            LET r == suggestions[i].range
                line == ModelLines(sqlText)[position.lineNumber]
            IN  /\ r.startLineNumber = position.lineNumber
                /\ r.endLineNumber = position.lineNumber
                /\ 1 <= r.startColumn
                /\ r.startColumn <= r.endColumn
                /\ r.endColumn = position.column
                /\ r.endColumn <= Len(line) + 1
                /\ \A k \in r.startColumn..(r.endColumn - 1) :
                       IsWordChar(line[k])

\* a response for a cursor inside a word on the second line of the text
RangeOnCursorLineWitness ==
    /\ pc = "returned"
    /\ position.lineNumber = 2
    /\ Len(suggestions) = 1
    /\ suggestions[1].range.startLineNumber = 2
    /\ suggestions[1].range.startColumn < suggestions[1].range.endColumn
    /\ suggestions[1].range.endColumn <= Len(ModelLines(sqlText)[2])

\* C16 as stated: after a load of the schema has failed, the held Schema
\* Index contributes no column candidates to the completion.
NoColumnsAfterFailedLoad ==
    lastOp.op = "schemaFailed" => SchemaColumnCandidates(tableInfo) = {}

\* C17 as stated: once every load has settled, and all settled successfully,
\* the held tables and tableInfo are those of the selected connection.
MetadataOfSelectedConnection ==
    (/\ loads = EmptyBag
     /\ loadFailures = 0
     /\ selectedConnection \in DataSources)
        => /\ tables = TablesOf[selectedConnection]
           /\ tableInfo = SchemaOf[selectedConnection]
====
